---- MODULE Spec2Model ----
(***************************************************************************)
(* gakun: an SSH key manager.  A JSON document of profiles                 *)
(* (profile -> host -> key path) is kept in ~/.config/gakun/config.json,   *)
(* and `use` / `detach` splice a delimited section into ~/.ssh/config.     *)
(*                                                                         *)
(* Text is a sequence of tokens.  A token is one character ("a", LF, CR)   *)
(* or one of the literal pieces the program's format string and its two    *)
(* `contains` tests are made of, so that `line.contains("gakun begin")`    *)
(* is "the token gakun begin occurs in the line".                          *)
(*                                                                         *)
(* Not modelled: filesystem errors other than a missing file, and target   *)
(* files that are not UTF-8 (both end the command with an error).          *)
(***************************************************************************)
EXTENDS Naturals, Sequences, FiniteSets

VARIABLES
  cfgFile,   \* ~/.config/gakun/config.json: [exists, valid, json]
  sshFile,   \* ~/.ssh/config: [exists, data]
  config,    \* Gakun.config of the running process
  clock,     \* SystemTime::now() in seconds
  pc,        \* position of main: "start", "loaded" (after Gakun::new), "exit"
  op,        \* the step main took last
  args,      \* the command's arguments [profile, host, key]
  result,    \* what that step returned: "Ok" or the error
  out,       \* what the command printed
  pre,       \* ~/.ssh/config as it was when the command started
  io,        \* file accesses of the running process
  added      \* history: (profile, host) -> the key of the latest successful add

vars == <<cfgFile, sshFile, config, clock, pc, op, args, result, out, pre, io, added>>

----------------------------------------------------------------------------
(* Bounds *)

MaxPieces == 4      \* pieces of text the initial ~/.ssh/config is made of
MaxTime == 2        \* seconds the clock can advance
MaxFileLen == 24    \* tokens ~/.ssh/config can hold: a longer write is not taken

----------------------------------------------------------------------------
(* Tokens *)

LF == "<LF>"
CR == "<CR>"
Hashes == "###### "
GakunBegin == "gakun begin"
GakunEnd == "gakun end"
HostKw == "Host "
HostnameKw == "  Hostname "
IdentityFileKw == "  IdentityFile "

NoKey == <<>>
NoArgs == [profile |-> "", host |-> <<>>, key |-> NoKey]

\* fs::metadata(key) succeeds for these paths
ExistingKeys == {<<"k">>, <<"j">>}

----------------------------------------------------------------------------
(* Text helpers *)

\* str::contains with a pattern that is one token
contains(line, pat) == \E i \in DOMAIN line : line[i] = pat

RECURSIVE Concat(_)
Concat(ss) == IF ss = <<>> THEN <<>> ELSE Head(ss) \o Concat(Tail(ss))

\* index of the first LF of s, Len(s) + 1 when there is none
FirstLF(s) ==
  IF \E i \in DOMAIN s : s[i] = LF
    THEN CHOOSE i \in DOMAIN s : s[i] = LF /\ \A j \in 1..(i - 1) : s[j] # LF
    ELSE Len(s) + 1

\* BufRead::lines: split at LF; a line that ended in LF loses it and one CR
\* before it; the rest after the last LF is a line when it is not empty
RECURSIVE lines(_)
lines(s) ==
  IF s = <<>> THEN <<>>
  ELSE LET n == FirstLF(s)
           raw == SubSeq(s, 1, n - 1)
           line == IF n <= Len(s) /\ raw # <<>> /\ raw[Len(raw)] = CR
                     THEN SubSeq(raw, 1, Len(raw) - 1)
                     ELSE raw
       IN <<line>> \o lines(SubSeq(s, n + 1, Len(s)))

\* [String]::join
RECURSIVE join(_, _)
join(ls, sep) ==
  IF ls = <<>> THEN <<>>
  ELSE IF Len(ls) = 1 THEN ls[1]
  ELSE ls[1] \o sep \o join(Tail(ls), sep)

----------------------------------------------------------------------------
(* read_file_with_skip_section *)

\* is_begin with the marker words mistyped: no line is a begin marker
is_begin_typo(line) == contains(line, "gakun start")

is_begin(line) == contains(line, GakunBegin)

is_end(line) == contains(line, GakunEnd)

\* skip_loop that looks for the end marker only inside a section
RECURSIVE skip_loop_end_inside(_, _)
skip_loop_end_inside(ls, skip) ==
  IF ls = <<>> THEN <<>>
  ELSE IF is_begin(Head(ls)) THEN skip_loop_end_inside(Tail(ls), TRUE)
  ELSE IF skip /\ is_end(Head(ls)) THEN skip_loop_end_inside(Tail(ls), FALSE)
  ELSE IF ~skip THEN <<Head(ls)>> \o skip_loop_end_inside(Tail(ls), skip)
  ELSE skip_loop_end_inside(Tail(ls), skip)

\* the for loop: the lines pushed, from skip_section = skip on
RECURSIVE skip_loop(_, _)
skip_loop(ls, skip) ==
  IF ls = <<>> THEN <<>>
  ELSE IF is_begin(Head(ls)) THEN skip_loop(Tail(ls), TRUE)
  ELSE IF is_end(Head(ls)) THEN skip_loop(Tail(ls), FALSE)
  ELSE IF ~skip THEN <<Head(ls)>> \o skip_loop(Tail(ls), skip)
  ELSE skip_loop(Tail(ls), skip)

join_lines(ls) == join(ls, <<LF>>) \o (IF ls = <<>> THEN <<>> ELSE <<LF>>)

\* the String returned for a file that File::open could open
skip_section(data) == join_lines(skip_loop(lines(data), FALSE))

\* File::open fails on a missing file and File::create makes an empty one,
\* opened for writing only: the first read of reader.lines() then fails
\* (EBADF) and `line?` returns the error.
read_file_with_skip_section(file) ==
  IF file.exists
    THEN [ok |-> TRUE, data |-> skip_section(file.data), created |-> FALSE]
    ELSE [ok |-> FALSE, data |-> <<>>, created |-> TRUE]

\* format!("###### gakun begin\nHost {}\n  Hostname {}\n  IdentityFile {}\n###### gakun end\n")
new_config(host, key) ==
  <<Hashes, GakunBegin, LF, HostKw>> \o host \o <<LF, HostnameKw>> \o host
    \o <<LF, IdentityFileKw>> \o key \o <<LF, Hashes, GakunEnd, LF>>

----------------------------------------------------------------------------
(* Config *)

NoProfiles == <<>>

ConfigDefault(now) == [profiles |-> NoProfiles, updated_at |-> now]

\* serde_json::to_string(&Config)
to_string(cfg) == [profiles |-> cfg.profiles, updated_at |-> cfg.updated_at]

\* serde_json::from_str::<Config>, profiles with #[serde(default)]
from_str(json) ==
  [profiles |-> IF "profiles" \in DOMAIN json THEN json.profiles ELSE NoProfiles,
   updated_at |-> json.updated_at]

\* insert that replaces the profile's host map by one with this host alone
insert_replace(profiles, profile, host, key) ==
  [p \in DOMAIN profiles \cup {profile} |->
     IF p = profile THEN [h \in {host} |-> key] ELSE profiles[p]]

\* profiles.entry(profile).or_insert_with(HashMap::new).insert(host, key)
insert(profiles, profile, host, key) ==
  LET hosts == IF profile \in DOMAIN profiles THEN profiles[profile] ELSE <<>>
      hosts2 == [h \in DOMAIN hosts \cup {host} |-> IF h = host THEN key ELSE hosts[h]]
  IN [p \in DOMAIN profiles \cup {profile} |-> IF p = profile THEN hosts2 ELSE profiles[p]]

\* profiles.get(profile).and_then(|hosts| hosts.get(host)); NoKey for None
get(profiles, profile, host) ==
  IF profile \in DOMAIN profiles /\ host \in DOMAIN profiles[profile]
    THEN profiles[profile][host]
    ELSE NoKey

\* key_exists without the check
key_exists_unchecked(key) == TRUE

\* fs::metadata(key) is Ok
key_exists(key) == key \in ExistingKeys

NoIo == [cfgReads |-> 0, cfgWrites |-> 0, sshReads |-> 0, sshCreates |-> 0,
         sshWrites |-> 0, firstRun |-> FALSE]

\* fs::read_to_string(&self.config_path) in load_config
count_cfg_read(ioc) == [ioc EXCEPT !.cfgReads = @ + 1]

\* count_cfg_write of a save_config that writes the file twice
count_cfg_write_twice(ioc) == [ioc EXCEPT !.cfgWrites = @ + 2]

\* fs::write(&self.config_path, json) in save_config
count_cfg_write(ioc) == [ioc EXCEPT !.cfgWrites = @ + 1]

\* save_config: updated_at = now, then the whole document is written
save_config(cfg, ioc, now) ==
  LET saved == [cfg EXCEPT !.updated_at = now]
  IN [config |-> saved,
      cfgFile |-> [exists |-> TRUE, valid |-> TRUE, json |-> to_string(saved)],
      io |-> count_cfg_write(ioc)]

\* read_file_with_skip_section and then fs::write of prefix and the data read
write_section(file, ioc, prefix) ==
  LET rd == read_file_with_skip_section(file)
  IN IF rd.ok
       THEN [result |-> "Ok",
             file |-> [exists |-> TRUE, data |-> prefix \o rd.data],
             io |-> [ioc EXCEPT !.sshReads = @ + 1, !.sshWrites = @ + 1]]
       ELSE [result |-> "IOError",
             file |-> [exists |-> TRUE, data |-> <<>>],
             io |-> [ioc EXCEPT !.sshReads = @ + 1, !.sshCreates = @ + 1]]

\* use_not_found of a use_profile that opens the target file before the lookup
use_not_found_reads(file, ioc) ==
  [result |-> "NotFound",
   file |-> [exists |-> TRUE, data |-> file.data],
   io |-> [ioc EXCEPT !.sshReads = @ + 1,
                      !.sshCreates = IF file.exists THEN @ ELSE @ + 1]]

\* use_profile when the lookup gives None: `?` returns before anything else
use_not_found(file, ioc) == [result |-> "NotFound", file |-> file, io |-> ioc]

----------------------------------------------------------------------------
(* Operations *)

\* Gakun::new with load_config: a fresh process starts
new ==
  /\ pc \in {"start", "exit"}
  /\ op' = "new"
  /\ args' = NoArgs
  /\ out' = {}
  /\ pre' = sshFile
  /\ UNCHANGED <<sshFile, added>>
  /\ \E t0 \in clock..MaxTime :
       IF cfgFile.exists
         THEN /\ clock' = t0
              /\ io' = count_cfg_read(NoIo)
              /\ UNCHANGED cfgFile
              /\ IF cfgFile.valid
                   THEN /\ config' = from_str(cfgFile.json)
                        /\ result' = "Ok"
                        /\ pc' = "loaded"
                   ELSE /\ config' = ConfigDefault(t0)
                        /\ result' = "ParseError"
                        /\ pc' = "exit"
         ELSE \E t1 \in t0..MaxTime :
              LET saved == save_config(ConfigDefault(t0), count_cfg_read(NoIo), t1)
              IN /\ clock' = t1
                 /\ io' = [saved.io EXCEPT !.firstRun = TRUE]
                 /\ config' = saved.config
                 /\ cfgFile' = saved.cfgFile
                 /\ result' = "Ok"
                 /\ pc' = "loaded"

\* Gakun::add
add(profile, host, key) ==
  /\ pc = "loaded"
  /\ pc' = "exit"
  /\ op' = "add"
  /\ args' = [profile |-> profile, host |-> host, key |-> key]
  /\ out' = {}
  /\ pre' = sshFile
  /\ UNCHANGED sshFile
  /\ IF ~key_exists(key)
       THEN /\ result' = "InvalidKeyPath"
            /\ UNCHANGED <<config, cfgFile, clock, io, added>>
       ELSE \E t \in clock..MaxTime :
            LET saved == save_config(
                           [config EXCEPT !.profiles = insert(@, profile, host, key)],
                           io, t)
            IN /\ clock' = t
               /\ config' = saved.config
               /\ cfgFile' = saved.cfgFile
               /\ io' = saved.io
               /\ result' = "Ok"
               /\ added' = [q \in DOMAIN added \cup {<<profile, host>>} |->
                              IF q = <<profile, host>> THEN key ELSE added[q]]

\* Gakun::use_profile
use_profile(profile, host) ==
  /\ pc = "loaded"
  /\ pc' = "exit"
  /\ op' = "use"
  /\ pre' = sshFile
  /\ UNCHANGED <<config, cfgFile, clock, added>>
  /\ LET key == get(config.profiles, profile, host)
         eff == IF key = NoKey
                  THEN use_not_found(sshFile, io)
                  ELSE write_section(sshFile, io, new_config(host, key))
     IN /\ Len(eff.file.data) <= MaxFileLen
        /\ args' = [profile |-> profile, host |-> host, key |-> key]
        /\ result' = eff.result
        /\ sshFile' = eff.file
        /\ io' = eff.io
        /\ out' = IF eff.result = "Ok" THEN {<<key, host>>} ELSE {}

\* Gakun::list
list ==
  /\ pc = "loaded"
  /\ pc' = "exit"
  /\ op' = "ls"
  /\ args' = NoArgs
  /\ result' = "Ok"
  /\ out' = UNION {{<<p, h, config.profiles[p][h]>> : h \in DOMAIN config.profiles[p]} :
                     p \in DOMAIN config.profiles}
  /\ pre' = sshFile
  /\ UNCHANGED <<config, cfgFile, clock, sshFile, io, added>>

\* Gakun::detach
detach ==
  /\ pc = "loaded"
  /\ pc' = "exit"
  /\ op' = "detach"
  /\ args' = NoArgs
  /\ out' = {}
  /\ pre' = sshFile
  /\ UNCHANGED <<config, cfgFile, clock, added>>
  /\ LET eff == write_section(sshFile, io, <<>>)
     IN /\ result' = eff.result
        /\ sshFile' = eff.file
        /\ io' = eff.io

----------------------------------------------------------------------------
(* The program: any number of runs of main, each Gakun::new and one command *)

Profiles == {"work", "home"}
Hosts == {<<"h">>, <<"g">>}
Keys == ExistingKeys \cup {<<"m">>}

Fresh ==
  /\ config = ConfigDefault(0)
  /\ pc = "start"
  /\ op = "none"
  /\ args = NoArgs
  /\ result = "none"
  /\ out = {}
  /\ pre = sshFile
  /\ io = NoIo

\* first run, or a config file without profiles, or one that does not parse
Init ==
  /\ cfgFile \in {[exists |-> FALSE, valid |-> FALSE, json |-> [updated_at |-> 0]],
                  [exists |-> TRUE, valid |-> TRUE, json |-> [updated_at |-> 0]],
                  [exists |-> TRUE, valid |-> FALSE, json |-> [updated_at |-> 0]]}
  /\ sshFile \in {[exists |-> FALSE, data |-> <<>>],
                  [exists |-> TRUE, data |-> <<>>],
                  [exists |-> TRUE, data |-> <<"a", LF>>]}
  /\ clock = 0
  /\ added = <<>>
  /\ Fresh

Next ==
  \/ new
  \/ \E p \in Profiles, h \in Hosts, k \in Keys : add(p, h, k)
  \/ \E p \in Profiles, h \in Hosts : use_profile(p, h)
  \/ list
  \/ detach

Spec == Init /\ [][Next]_vars

----------------------------------------------------------------------------
(* The section editor: `use` and `detach` on any ~/.ssh/config, with a      *)
(* stored profile                                                           *)

Pieces ==
  {<<"a">>, <<LF>>, <<CR>>, <<Hashes, GakunBegin, LF>>, <<Hashes, GakunEnd, LF>>, <<GakunEnd>>}

Texts == {Concat(ps) : ps \in UNION {[1..n -> Pieces] : n \in 0..MaxPieces}}

\* a plain host, a second one, one that contains the words "gakun end", and
\* one with a line break followed by the end marker
EditHosts == {<<"h">>, <<"g">>, <<GakunEnd>>, <<LF, Hashes, GakunEnd>>}

EditProfiles ==
  [p \in {"work"} |-> [h \in EditHosts |-> IF h = <<"g">> THEN <<"j">> ELSE <<"k">>]]

InitEdit ==
  /\ cfgFile = [exists |-> TRUE, valid |-> TRUE,
                json |-> [profiles |-> EditProfiles, updated_at |-> 0]]
  /\ sshFile \in {[exists |-> FALSE, data |-> <<>>]}
                  \cup {[exists |-> TRUE, data |-> t] : t \in Texts}
  /\ clock = MaxTime
  /\ added = [q \in {"work"} \X EditHosts |-> EditProfiles[q[1]][q[2]]]
  /\ Fresh

NextEdit ==
  \/ new
  \/ \E p \in Profiles, h \in EditHosts : use_profile(p, h)
  \/ detach

SpecEdit == InitEdit /\ [][NextEdit]_vars

----------------------------------------------------------------------------
(* Properties of the section editor (checked under SpecEdit)                *)

BeginLine == <<Hashes, GakunBegin>>
EndLine == <<Hashes, GakunEnd>>

\* the command just run was a `use` or a `detach` that wrote the target file
Edited == op \in {"use", "detach"} /\ result = "Ok"

\* the section the command put in front: that of `use`, none for `detach`
Prefix == IF op = "use" THEN new_config(args.host, args.key) ELSE <<>>

\* the elements of ls at the indices in S, in order
RECURSIVE Pick(_, _, _)
Pick(ls, S, i) ==
  IF i > Len(ls) THEN <<>>
  ELSE (IF i \in S THEN <<ls[i]>> ELSE <<>>) \o Pick(ls, S, i + 1)

\* Line i of ls is dropped by a scan with two states and no nesting: it is a
\* marker, or some begin marker before it has no end marker between the two.
\* IsB and IsE say which lines are markers.
DroppedAt(ls, i, IsB(_), IsE(_)) ==
  \/ IsB(ls[i])
  \/ IsE(ls[i])
  \/ \E j \in 1..(i - 1) :
       /\ IsB(ls[j])
       /\ \A m \in (j + 1)..(i - 1) : IsB(ls[m]) \/ ~IsE(ls[m])

HasBeginWords(line) == \E i \in DOMAIN line : line[i] = GakunBegin
HasEndWords(line) == \E i \in DOMAIN line : line[i] = GakunEnd
IsBeginLine(line) == line = BeginLine
IsEndLine(line) == line = EndLine

\* the lines such a scan emits, with the markers the code looks for ...
KeptLines(ls) ==
  Pick(ls, {i \in DOMAIN ls : ~DroppedAt(ls, i, HasBeginWords, HasEndWords)}, 1)

\* ... and with the exact marker lines
KeptLinesExact(ls) ==
  Pick(ls, {i \in DOMAIN ls : ~DroppedAt(ls, i, IsBeginLine, IsEndLine)}, 1)

\* C9: the strip scan has two states and no nesting. After a `use` or a
\* `detach` the target file is the new section (if any) followed by exactly
\* those lines of the old file that are no markers and have no begin marker
\* before them that is still open, i.e. not followed by an end marker before
\* the line: further begin markers inside do not nest, an open begin marker
\* drops all that follows, an end marker outside is dropped and opens nothing.
C9_TwoStateScan ==
  Edited => sshFile.data = Prefix \o join_lines(KeptLines(lines(pre.data)))

\* begin, begin, end, text: one end marker closes both, the text is kept
C9_Witness ==
  /\ op = "detach" /\ result = "Ok"
  /\ pre.data = <<Hashes, GakunBegin, LF, Hashes, GakunBegin, LF, Hashes, GakunEnd, LF, "a">>
  /\ sshFile.data = <<"a", LF>>

\* C8: only the exact lines "###### gakun begin" and "###### gakun end" are
\* markers; every other line outside a section is emitted unchanged.
C8_ExactMarkers ==
  Edited => sshFile.data = Prefix \o join_lines(KeptLinesExact(lines(pre.data)))

\* the target file after `use` of (host, key) on a file with this data
Apply(data, host, key) ==
  write_section([exists |-> TRUE, data |-> data], NoIo, new_config(host, key)).file.data

\* C1: `use` is idempotent. Right after a successful `use`, running it again
\* with the same host and key would leave the target file as it is; and the
\* file without its section is the old file without its section.
C1_Idempotent ==
  (op = "use" /\ result = "Ok") =>
    /\ Apply(sshFile.data, args.host, args.key) = sshFile.data
    /\ skip_section(sshFile.data) = skip_section(pre.data)

\* the text split after each LF, every line with its line ending
RECURSIVE RawLines(_)
RawLines(s) ==
  IF s = <<>> THEN <<>>
  ELSE LET n == FirstLF(s)
       IN <<SubSeq(s, 1, IF n <= Len(s) THEN n ELSE Len(s))>>
            \o RawLines(SubSeq(s, n + 1, Len(s)))

\* a raw line without its LF or CR LF
Body(raw) ==
  LET noLF == IF raw # <<>> /\ raw[Len(raw)] = LF THEN SubSeq(raw, 1, Len(raw) - 1) ELSE raw
  IN IF Len(noLF) < Len(raw) /\ noLF # <<>> /\ noLF[Len(noLF)] = CR
       THEN SubSeq(noLF, 1, Len(noLF) - 1)
       ELSE noLF

RawIsBegin(raw) == Body(raw) = BeginLine
RawIsEnd(raw) == Body(raw) = EndLine

\* the bytes of the text that are outside the managed section
Outside(s) ==
  LET rs == RawLines(s)
  IN Concat(Pick(rs, {i \in DOMAIN rs : ~DroppedAt(rs, i, RawIsBegin, RawIsEnd)}, 1))

\* C2: a `use` or a `detach` leaves what is outside the managed section as
\* it was, byte for byte, line endings and a missing last newline included.
C2_NonInterference ==
  Edited => Outside(sshFile.data) = Outside(pre.data)

NoLineBreak(s) == \A i \in DOMAIN s : s[i] # LF

\* one begin marker line, one end marker line, in this order
OneSection(ls) ==
  \E i, j \in DOMAIN ls :
    /\ i < j
    /\ \A m \in DOMAIN ls : (ls[m] = BeginLine) = (m = i)
    /\ \A m \in DOMAIN ls : (ls[m] = EndLine) = (m = j)

NoSection(ls) == \A m \in DOMAIN ls : ~HasBeginWords(ls[m]) /\ ~HasEndWords(ls[m])

\* C3 as claimed: one section after every successful `use`, none after every
\* successful `detach`.
C3_Original ==
  /\ (op = "use" /\ result = "Ok") => OneSection(lines(sshFile.data))
  /\ (op = "detach" /\ result = "Ok") => NoSection(lines(sshFile.data))

\* C3 amended: one section after every successful `use` whose host and key
\* path hold no line break, none after every successful `detach`.
C3_SectionCount ==
  /\ (op = "use" /\ result = "Ok" /\ NoLineBreak(args.host) /\ NoLineBreak(args.key))
       => OneSection(lines(sshFile.data))
  /\ (op = "detach" /\ result = "Ok") => NoSection(lines(sshFile.data))

\* `use` of host h on a file that held the section of host g and more
C3_Witness ==
  /\ op = "use" /\ result = "Ok" /\ args.host = <<"h">>
  /\ pre.data = new_config(<<"g">>, <<"j">>) \o <<"a", LF>>
  /\ OneSection(lines(sshFile.data))

\* C4: `use` of a stored pair leaves the target file equal to the rendered
\* section followed by what is left of the old file without its section; an
\* absent file counts as empty.
C4_UseResult ==
  (op = "use" /\ args.key # NoKey) =>
    /\ result = "Ok"
    /\ sshFile.data =
         <<Hashes, GakunBegin, LF, HostKw>> \o args.host \o <<LF, HostnameKw>> \o args.host
           \o <<LF, IdentityFileKw>> \o args.key \o <<LF, Hashes, GakunEnd, LF>>
           \o skip_section(pre.data)

----------------------------------------------------------------------------
(* Properties of the program (checked under Spec)                           *)

\* the key path the persisted document holds for (profile, host), NoKey for none
Stored(profile, host) ==
  IF cfgFile.exists /\ cfgFile.valid
    THEN get(from_str(cfgFile.json).profiles, profile, host)
    ELSE NoKey

\* the key path of the latest successful add of (profile, host), NoKey for none
LastAdded(profile, host) ==
  IF <<profile, host>> \in DOMAIN added THEN added[<<profile, host>>] ELSE NoKey

\* C5: last write wins. From a fresh store on, the store holds for every
\* (profile, host) the key path of the latest successful add of that pair and
\* nothing for a pair never added; `use` fails with NotFound exactly for the
\* pairs never added and otherwise works with that key path.
C5_LastWriteWins ==
  /\ \A p \in Profiles, h \in Hosts : Stored(p, h) = LastAdded(p, h)
  /\ pc = "loaded" =>
       \A p \in Profiles, h \in Hosts : get(config.profiles, p, h) = LastAdded(p, h)
  /\ op = "use" =>
       /\ (result = "NotFound") = (LastAdded(args.profile, args.host) = NoKey)
       /\ result = "Ok" => out = {<<LastAdded(args.profile, args.host), args.host>>}

\* `use` finds key j for (work, h) where an earlier `use` had found key k
\* (its section is in the file, and no other profile holds host h): the
\* second add replaced the first, and the key of (work, g) is as it was
C5_Witness ==
  /\ op = "use" /\ result = "Ok" /\ args.profile = "work"
  /\ out = {<< <<"j">>, <<"h">> >>}
  /\ pre.data = new_config(<<"h">>, <<"k">>)
  /\ Stored("home", <<"h">>) = NoKey
  /\ Stored("work", <<"g">>) = <<"k">>

\* C6: an add whose key path names no filesystem entry fails with
\* InvalidKeyPath and changes neither the profiles and updated_at in memory
\* nor the config file.
C6_FailedAddUnchanged ==
  [][(pc = "loaded" /\ pc' = "exit" /\ op' = "add" /\ args'.key \notin ExistingKeys)
       => (result' = "InvalidKeyPath" /\ config' = config /\ cfgFile' = cfgFile)]_vars

\* a failed add for a pair that is stored: the stored key is still there
C6_Witness ==
  /\ op = "add" /\ result = "InvalidKeyPath"
  /\ args = [profile |-> "work", host |-> <<"h">>, key |-> <<"m">>]
  /\ get(config.profiles, "work", <<"h">>) = <<"k">>
  /\ Stored("work", <<"h">>) = <<"k">>

\* C7 as claimed: a run reads and writes each of the two files at most once.
C7_Original ==
  /\ io.cfgReads <= 1
  /\ io.cfgWrites <= 1
  /\ io.sshReads <= 1
  /\ io.sshWrites <= 1

\* C7 amended: a run reads the config file at most once, reads the target
\* file at most once and writes or creates it at most once, and writes the
\* config file at most once when it found it at startup; when it did not, the startup writes the
\* default document and a successful add writes again, two writes in all.
C7_IoBound ==
  /\ io.cfgReads <= 1
  /\ io.sshReads <= 1
  /\ io.sshWrites + io.sshCreates <= 1
  /\ io.cfgWrites <= 2
  /\ ~io.firstRun => io.cfgWrites <= 1
  /\ io.cfgWrites = 2 => (op = "add" /\ result = "Ok")

\* the first run was an add
C7_Witness == io.firstRun /\ io.cfgWrites = 2 /\ op = "add"

\* C10: `use` of a pair that is not stored fails with NotFound and neither
\* reads, creates nor writes the target file, nor changes the config.
C10_FailedUseUntouched ==
  [][(pc = "loaded" /\ pc' = "exit" /\ op' = "use"
        /\ get(config.profiles, args'.profile, args'.host) = NoKey)
       => (result' = "NotFound" /\ sshFile' = sshFile /\ io' = io
             /\ cfgFile' = cfgFile /\ config' = config)]_vars

\* a failed `use` with no target file: there is still none
C10_Witness ==
  /\ op = "use" /\ result = "NotFound"
  /\ ~sshFile.exists
  /\ io.sshReads = 0 /\ io.sshCreates = 0 /\ io.sshWrites = 0
  /\ get(config.profiles, "work", <<"h">>) = <<"k">>

====
